---- MODULE Spec2Model ----
(***************************************************************************)
(* Model of the SDG scraper orchestration engine: BaseScraper (the two     *)
(* phase crawl, get_soup and its semaphore, process_card), the sdgfund and *)
(* iom adapters, download_file / write_content, and the CLI run command.   *)
(*                                                                         *)
(* One asyncio event loop runs the main coroutine (run), one task per      *)
(* listing page, one task per collected card and one task per document     *)
(* download.  Every action below is the code a task executes between two   *)
(* suspension points (await).  shuffle() followed by the FIFO wake-up of   *)
(* asyncio.Semaphore gives an arbitrary order of acquisition, which the    *)
(* interleaving of the actions covers.                                     *)
(*                                                                         *)
(* The web site is fixed at Init (variable site); an HTTP failure stands   *)
(* for every httpx.HTTPError: a transport error raised by client.get or a  *)
(* non-2xx status raised by raise_for_status.  The socket pool bounded by  *)
(* max_connections lies below client.get and is not modelled: a request is *)
(* in flight from the call of client.get until it returns.                 *)
(***************************************************************************)
EXTENDS Integers, Sequences, FiniteSets, TLC

\* ---------------------------------------------------------------- bounds
MaxPages == 2
MaxRequests == 2

Pages == 0 .. (MaxPages - 1)
Urls == {"a", "b"}
DocUrls == {"d1", "d2"}

\* ------------------------------------------------------- python values
\* None for str | None fields; list / dict / int optionals are wrapped:
\* <<>> is None and <<x>> is the value x.
None == "None"
NoneV == << >>
Some(x) == << x >>
IsNone(o) == Len(o) = 0
Val(o) == o[1]

RECURSIVE SeqToSet(_)
SeqToSet(s) == IF s = << >> THEN {} ELSE {Head(s)} \cup SeqToSet(Tail(s))

\* every iteration order of a python set
Orders(S) == { s \in [1 .. Cardinality(S) -> S] :
                 \A i, j \in 1 .. Cardinality(S) : i # j => s[i] # s[j] }

RECURSIVE insort(_, _)
insort(x, s) == IF s = << >> THEN << x >>
                ELSE IF x <= Head(s) THEN << x >> \o s
                ELSE << Head(s) >> \o insort(x, Tail(s))

RECURSIVE sorted(_)
sorted(s) == IF s = << >> THEN << >> ELSE insort(Head(s), sorted(Tail(s)))

\* ------------------------------------------------------------ entities
CardEqFull(a, b) == a = b

CardEq(a, b) == a.url = b.url

Card(url, metadata) == [url |-> url, metadata |-> metadata]

File(url, name) == [url |-> url, name |-> name]

\* set.add with Card.__hash__ / __eq__: an equal element already in the
\* set is kept and the new one dropped
SetAdd(S, c) == IF \E x \in S : CardEq(x, c) THEN S ELSE S \cup {c}

RECURSIVE SetUpdate(_, _)
SetUpdate(S, cs) == IF cs = << >> THEN S
                    ELSE SetUpdate(SetAdd(S, Head(cs)), Tail(cs))

\* pydantic validation of Metadata: labels is list[int], None is rejected
MetadataValid(m) == ~IsNone(m.labels)

Metadata(source, title, type, year, labels) ==
    [source |-> source, title |-> title, type |-> type, year |-> year,
     labels |-> labels]

PublicationKeepEmpty(m, files) ==
    [source |-> m.source, title |-> m.title, type |-> m.type,
     year |-> m.year, labels |-> Val(m.labels), files |-> Some(files)]

\* files=files or None: an empty list is falsy
Publication(m, files) ==
    [source |-> m.source, title |-> m.title, type |-> m.type,
     year |-> m.year, labels |-> Val(m.labels),
     files |-> IF files = << >> THEN NoneV ELSE Some(files)]

\* ------------------------------------------------------------- utils
\* byte strings served by the site and the text of a page (code points)
Pdf1 == << 37, 80, 68, 70 >>
Pdf2 == << 37, 80, 68, 70, 50 >>
PageText == << 83, 233 >>

encode_latin1(t) == t

\* str.encode("utf-8") of a text of code points below 2048
RECURSIVE encode_utf8(_)
encode_utf8(t) ==
    IF t = << >> THEN << >>
    ELSE (IF Head(t) < 128 THEN << Head(t) >>
          ELSE << 192 + (Head(t) \div 64), 128 + (Head(t) % 64) >>)
         \o encode_utf8(Tail(t))

\* md5(content).hexdigest() of the byte strings above
get_file_id(content) ==
    CASE content = Pdf1 -> "bfa4b10a76324b166cfdad5e02a63730"
      [] content = Pdf2 -> "c73cc44e6ae4d8039bb1d7f3bbbc6039"
      [] content = << 83, 195, 169 >> -> "c126f7129c44414e560bb02404564826"
      [] content = << 83, 233 >> -> "325e6d8df9091fe2a82e73358767b86c"
      [] OTHER -> "d41d8cd98f00b204e9800998ecf8427e"

file_name(content, extension) == get_file_id(content) \o "." \o extension

\* open(file_path, "wb") in a folder that exists: the file exists and is
\* empty; in a folder that does not exist open raises FileNotFoundError
OpenWb(d, name) == [n \in DOMAIN d \cup {name} |-> IF n = name THEN << >> ELSE d[n]]

\* file.write(content)
WriteBytes(d, name, content) ==
    [n \in DOMAIN d \cup {name} |-> IF n = name THEN content ELSE d[n]]

\* ------------------------------------------------------------ the site
\* a teaser on a listing page: the link and the inline title, type, year
Entry(url, title) == [url |-> url, title |-> title, type |-> "news", year |-> Some(2023)]

Listing(status, entries) == [status |-> status, entries |-> entries]

\* a publication page: goals are the SDG numbers in page order, links the
\* .pdf anchors, text the article body (None when the page has none)
Detail(status, goals, links, text) ==
    [status |-> status, title |-> "T", year |-> Some(2021), goals |-> goals,
     links |-> links, text |-> text]

Doc(status, content) == [status |-> status, content |-> content]

ListingOptions ==
    { Listing(500, << >>),
      Listing(200, << Entry("a", "T1") >>),
      Listing(200, << Entry("a", "T1"), Entry("b", "T1") >>),
      Listing(200, << Entry("b", "T1"), Entry("a", "T2") >>) }

Detail500 == Detail(500, << >>, {}, NoneV)

DetailOptions(mode) ==
    IF mode = "files"
    THEN { Detail500,
           Detail(200, << >>, {"d1"}, NoneV),
           Detail(200, << 7, 3 >>, {}, NoneV),
           Detail(200, << 7, 3 >>, {"d1"}, NoneV),
           Detail(200, << 7, 3 >>, {"d1", "d2"}, NoneV) }
    ELSE { Detail500,
           Detail(200, << >>, {}, Some(PageText)),
           Detail(200, << 7, 3 >>, {}, NoneV),
           Detail(200, << 7, 3 >>, {}, Some(<< >>)),
           Detail(200, << 7, 3 >>, {}, Some(PageText)) }

Doc500 == Doc(500, << >>)

DocOptions(d) == IF d = "d1" THEN { Doc500, Doc(200, Pdf1) }
                 ELSE { Doc500, Doc(200, Pdf1), Doc(200, Pdf2) }

\* ------------------------------------------------------------ adapters
Adapters == {"sdgfund", "iom"}

\* iom passes download_mode="text"; sdgfund keeps the default "files"
DownloadMode(a) == IF a = "iom" THEN "text" ELSE "files"

\* the cards collect_cards builds from a listing page
RECURSIVE ParseCards(_, _)
ParseCards(a, entries) ==
    IF entries = << >> THEN << >>
    ELSE LET e == Head(entries)
             c == IF a = "iom"
                  THEN Card(e.url, Some([title |-> e.title, type |-> e.type,
                                         year |-> e.year]))
                  ELSE Card(e.url, NoneV)
         IN << c >> \o ParseCards(a, Tail(entries))

\* sdgfund: goals is a list, never None, so the labels are the sorted
\* numbers found, the empty list for a page without goals
sdgfund_parse_labels(soup) == Some(sorted(soup.goals))

\* iom: None when no label image matched, else the sorted labels
iom_parse_labels(soup) ==
    IF soup.goals = << >> THEN NoneV ELSE Some(sorted(soup.goals))

_parse_labels(a, soup) ==
    IF a = "iom" THEN iom_parse_labels(soup) ELSE sdgfund_parse_labels(soup)

\* iom: the card's inline title, type and year, labels from the page
iom_parse_metadata(soup, card) ==
    LET md == Val(card.metadata)
    IN Metadata(card.url, md.title, md.type, md.year, iom_parse_labels(soup))

\* base class, for a card without metadata: everything from the page;
\* sdgfund._parse_type returns None
base_parse_metadata(a, soup, card) ==
    Metadata(card.url, soup.title, None, soup.year, _parse_labels(a, soup))

_parse_metadata(a, soup, card) ==
    IF a = "iom" THEN iom_parse_metadata(soup, card)
    ELSE base_parse_metadata(a, soup, card)

\* pages that the crawl can reach, used to keep unreachable parts of the
\* site at one fixed value
ListedUrls(a, listing) ==
    IF a = "sdgfund" /\ \E p \in Pages : listing[p].status # 200 THEN {}
    ELSE UNION { { listing[p].entries[i].url : i \in DOMAIN listing[p].entries } :
                 p \in Pages }

LinkedDocs(a, listing, detail) ==
    UNION { IF detail[u].status = 200 THEN detail[u].links ELSE {} :
            u \in ListedUrls(a, listing) }

\* what the GET of url_base gives: a 2xx, an error status, or no answer
\* at all (0: client.get raises a transport error)
BaseOptions == {200, 500, 0}

Sites(a) ==
    { s \in [base : BaseOptions,
             listing : [Pages -> ListingOptions],
             detail : [Urls -> DetailOptions(DownloadMode(a))],
             docs : [DocUrls -> UNION { DocOptions(d) : d \in DocUrls }]] :
        /\ s.base = 0 => \A p \in Pages : s.listing[p] = Listing(500, << >>)
        /\ \A d \in DocUrls : s.docs[d] \in DocOptions(d)
        /\ \A u \in Urls \ ListedUrls(a, s.listing) : s.detail[u] = Detail500
        /\ \A d \in DocUrls \ LinkedDocs(a, s.listing, s.detail) : s.docs[d] = Doc500 }

\* --------------------------------------------------------------- state
VARIABLES
    adapter,        \* the source given to run: the Scraper class used
    max_requests,   \* --max-requests of run, read as settings.max_requests
    site,           \* what the web site serves
    folder_exists,  \* settings.folder_path is an existing directory
    client,         \* httpx.AsyncClient: "unopened", "open", "closed"
    mainpc,         \* position of the run coroutine
    exc,            \* exception propagating out of run, "none" if none
    semaphore,      \* self.semaphore._value
    lheld,          \* listing tasks inside "async with self.semaphore"
    cheld,          \* card tasks inside "async with self.semaphore"
    lpc,            \* position of each collect_cards task
    cards,          \* self.cards
    cpc,            \* position of each process_card task
    dpc,            \* position of each download_file task, per card
    disk,           \* files of the output folder: name -> bytes
    pubs,           \* self.pubs
    exported,       \* the publications-*.jsonl files written, each its lines
    fetches         \* number of detail-page GETs issued per card url

vars == << adapter, max_requests, site, folder_exists, client, mainpc, exc,
           semaphore, lheld, cheld, lpc, cards, cpc, dpc, disk, pubs, exported,
           fetches >>

config == << adapter, max_requests, site, folder_exists >>

DocIdle == [d \in DocUrls |-> "none"]

\* the scraper as constructed by run: no card, no publication, a semaphore
\* of max_requests permits, a client not yet opened
InitScraper ==
    /\ adapter \in Adapters
    /\ max_requests \in 1 .. MaxRequests
    /\ site \in Sites(adapter)
    /\ client = "unopened"
    /\ mainpc = "start"
    /\ exc = "none"
    /\ semaphore = max_requests
    /\ lheld = {}
    /\ cheld = {}
    /\ lpc = [p \in Pages |-> "none"]
    /\ cards = {}
    /\ cpc = [u \in Urls |-> "none"]
    /\ dpc = [u \in Urls |-> DocIdle]
    /\ disk = << >>
    /\ pubs = << >>
    /\ exported = << >>
    /\ fetches = [u \in Urls |-> 0]

\* run with --folder naming a directory that exists, as Settings.folder_path
\* requires
Init == InitScraper /\ folder_exists = TRUE

\* run with any --folder
InitAnyFolder == InitScraper /\ folder_exists \in BOOLEAN

\* ----------------------------------------------------- run, __aenter__
\* tasks are scheduled while run is inside "async with scraper"
LoopRunning == mainpc \in {"phase1", "phase2", "aexit"}

\* await self.client.__aenter__()
AEnter ==
    /\ mainpc = "start"
    /\ client' = "open"
    /\ mainpc' = "probe"
    /\ UNCHANGED << config, fetches, exc, semaphore, lheld, cheld, lpc, cards, cpc, dpc,
                    disk, pubs, exported >>

\* response = await self.client.get(self.url_base) returns, with any status
\* (there is no raise_for_status); __aenter__ returns and __call__ starts:
\* pages are shuffled and one collect_cards task per page is created
ProbeReturns ==
    /\ mainpc = "probe"
    /\ site.base # 0
    /\ mainpc' = "phase1"
    /\ lpc' = [p \in Pages |-> "idle"]
    /\ UNCHANGED << config, fetches, client, exc, semaphore, lheld, cheld, cards, cpc,
                    dpc, disk, pubs, exported >>

\* client.get(self.url_base) raises: __aenter__ raises, so __aexit__ does
\* not run and the exception leaves run
ProbeRaises ==
    /\ mainpc = "probe"
    /\ site.base = 0
    /\ mainpc' = "failed"
    /\ exc' = "ConnectError"
    /\ UNCHANGED << config, fetches, client, semaphore, lheld, cheld, lpc, cards, cpc,
                    dpc, disk, pubs, exported >>

\* -------------------------------------------------------- the semaphore
lockedNever == FALSE

\* Semaphore.locked(): no permit is available
locked == semaphore = 0

\* "async with self.semaphore" is entered: __aenter__ takes a permit
Acquire == ~locked /\ semaphore' = semaphore - 1

ReleaseNothing == semaphore' = semaphore

\* "async with self.semaphore" is left, normally or by an exception
Release == semaphore' = semaphore + 1

\* ------------------------------------------------ sdgfund.collect_cards
\* response = await self.client.get(url, params=...), outside get_soup
sdgfund_collect_get(p) ==
    /\ LoopRunning /\ adapter = "sdgfund" /\ lpc[p] = "idle"
    /\ lpc' = [lpc EXCEPT ![p] = "rawget"]
    /\ UNCHANGED << config, fetches, client, mainpc, exc, semaphore, lheld, cheld, cards,
                    cpc, dpc, disk, pubs, exported >>

\* the response is a 2xx: self.cards.update(cards)
sdgfund_collect_ok(p) ==
    /\ LoopRunning /\ lpc[p] = "rawget" /\ site.listing[p].status = 200
    /\ cards' = SetUpdate(cards, ParseCards(adapter, site.listing[p].entries))
    /\ lpc' = [lpc EXCEPT ![p] = "done"]
    /\ UNCHANGED << config, fetches, client, mainpc, exc, semaphore, lheld, cheld, cpc,
                    dpc, disk, pubs, exported >>

\* client.get or response.raise_for_status() raises: nothing catches it
sdgfund_collect_raise(p) ==
    /\ LoopRunning /\ lpc[p] = "rawget" /\ site.listing[p].status # 200
    /\ lpc' = [lpc EXCEPT ![p] = "raised"]
    /\ UNCHANGED << config, fetches, client, mainpc, exc, semaphore, lheld, cheld, cards,
                    cpc, dpc, disk, pubs, exported >>

\* ---------------------------------------------------- iom.collect_cards
\* get_soup: the permit is taken and the GET is issued
iom_collect_get(p) ==
    /\ LoopRunning /\ adapter = "iom" /\ lpc[p] = "idle"
    /\ Acquire
    /\ lheld' = lheld \cup {p}
    /\ lpc' = [lpc EXCEPT ![p] = "get"]
    /\ UNCHANGED << config, fetches, client, mainpc, exc, cheld, cards, cpc, dpc, disk,
                    pubs, exported >>

\* get_soup: 2xx, the with block is left, then await self._wait()
iom_collect_fetched(p) ==
    /\ LoopRunning /\ lpc[p] = "get" /\ site.listing[p].status = 200
    /\ Release
    /\ lheld' = lheld \ {p}
    /\ lpc' = [lpc EXCEPT ![p] = "wait"]
    /\ UNCHANGED << config, fetches, client, mainpc, exc, cheld, cards, cpc, dpc, disk,
                    pubs, exported >>

\* get_soup: httpx.HTTPError is caught, None is returned; collect_cards
\* returns without a card
iom_collect_failed(p) ==
    /\ LoopRunning /\ lpc[p] = "get" /\ site.listing[p].status # 200
    /\ Release
    /\ lheld' = lheld \ {p}
    /\ lpc' = [lpc EXCEPT ![p] = "done"]
    /\ UNCHANGED << config, fetches, client, mainpc, exc, cheld, cards, cpc, dpc, disk,
                    pubs, exported >>

\* the pause is over: self.cards.add(card) for every card of the page
iom_collect_add(p) ==
    /\ LoopRunning /\ lpc[p] = "wait"
    /\ cards' = SetUpdate(cards, ParseCards(adapter, site.listing[p].entries))
    /\ lpc' = [lpc EXCEPT ![p] = "done"]
    /\ UNCHANGED << config, fetches, client, mainpc, exc, semaphore, lheld, cheld, cpc,
                    dpc, disk, pubs, exported >>

\* ------------------------------------------------- __call__, the gathers
AnyListingDone == \E p \in Pages : lpc[p] = "done"

\* tqdm.gather returns once every awaitable has returned
AllListingsDone == \A p \in Pages : lpc[p] = "done"

CardUrls == { c.url : c \in cards }

CardOf(u) == CHOOSE c \in cards : c.url = u

\* first gather returns: cards = list(self.cards), shuffled, one
\* process_card task per card
StartDetailPhase ==
    /\ mainpc = "phase1"
    /\ AllListingsDone
    /\ mainpc' = "phase2"
    /\ cpc' = [u \in Urls |-> IF u \in CardUrls THEN "idle" ELSE "none"]
    /\ UNCHANGED << config, fetches, client, exc, semaphore, lheld, cheld, lpc, cards,
                    dpc, disk, pubs, exported >>

\* tqdm.gather re-raises the exception of a collect_cards task; it leaves
\* __call__ and the "async with scraper" block is left
ListingPhaseRaises ==
    /\ mainpc = "phase1"
    /\ \E p \in Pages : lpc[p] = "raised"
    /\ mainpc' = "aexit"
    /\ exc' = "HTTPStatusError"
    /\ UNCHANGED << config, fetches, client, semaphore, lheld, cheld, lpc, cards, cpc,
                    dpc, disk, pubs, exported >>

\* ---------------------------------------------- process_card, get_soup
\* get_soup(card.url): the permit is taken and the GET is issued
get_soup_get(u) ==
    /\ LoopRunning /\ cpc[u] = "idle"
    /\ Acquire
    /\ cheld' = cheld \cup {u}
    /\ cpc' = [cpc EXCEPT ![u] = "get"]
    /\ fetches' = [fetches EXCEPT ![u] = @ + 1]
    /\ UNCHANGED << config, client, mainpc, exc, lheld, lpc, cards, dpc, disk,
                    pubs, exported >>

\* 2xx: the with block is left (the permit goes back), then
\* await self._wait() starts
get_soup_fetched(u) ==
    /\ LoopRunning /\ cpc[u] = "get" /\ site.detail[u].status = 200
    /\ Release
    /\ cheld' = cheld \ {u}
    /\ cpc' = [cpc EXCEPT ![u] = "wait"]
    /\ UNCHANGED << config, fetches, client, mainpc, exc, lheld, lpc, cards, dpc, disk,
                    pubs, exported >>

FetchFailedRaises == "raised"

FetchFailedRetry == "idle"

\* pc of process_card after get_soup caught httpx.HTTPError: it returned
\* None and process_card returns
FetchFailedPc == "skipped"

\* httpx.HTTPError: the with block is left by the exception, the handler
\* returns None and process_card returns
get_soup_failed(u) ==
    /\ LoopRunning /\ cpc[u] = "get" /\ site.detail[u].status # 200
    /\ Release
    /\ cheld' = cheld \ {u}
    /\ cpc' = [cpc EXCEPT ![u] = FetchFailedPc]
    /\ UNCHANGED << config, fetches, client, mainpc, exc, lheld, lpc, cards, dpc, disk,
                    pubs, exported >>

\* base _parse_metadata raises NotImplementedError for a card with inline
\* metadata; Metadata(...) raises ValidationError for labels=None
ParseRaises(a, soup, card) ==
    \/ a # "iom" /\ ~IsNone(card.metadata)
    \/ ~MetadataValid(_parse_metadata(a, soup, card))

TextContent(u) == encode_utf8(Val(site.detail[u].text))

\* the pause is over: the page is parsed and process_card runs up to its
\* next await.  In text mode that await is aiofiles.open of write_content,
\* taken here with the step: nothing shared changes in between.  When the
\* folder does not exist, open raises and the error leaves process_card.
process_card_parse(u) ==
    /\ LoopRunning /\ cpc[u] = "wait"
    /\ LET soup == site.detail[u]
           card == CardOf(u)
           metadata == _parse_metadata(adapter, soup, card)
       IN IF ParseRaises(adapter, soup, card)
          THEN /\ cpc' = [cpc EXCEPT ![u] = "raised"]
               /\ UNCHANGED << dpc, disk, pubs >>
          ELSE IF IsNone(metadata.labels)
          THEN /\ cpc' = [cpc EXCEPT ![u] = "nolabels"]
               /\ UNCHANGED << dpc, disk, pubs >>
          ELSE IF DownloadMode(adapter) = "files"
          THEN IF soup.links = {}
               THEN /\ pubs' = Append(pubs, Publication(metadata, << >>))
                    /\ cpc' = [cpc EXCEPT ![u] = "done"]
                    /\ UNCHANGED << dpc, disk >>
               ELSE /\ dpc' = [dpc EXCEPT ![u] =
                                 [d \in DocUrls |-> IF d \in soup.links
                                                    THEN "get" ELSE "none"]]
                    /\ cpc' = [cpc EXCEPT ![u] = "download"]
                    /\ UNCHANGED << disk, pubs >>
          ELSE IF IsNone(soup.text)
               THEN /\ cpc' = [cpc EXCEPT ![u] = "notext"]
                    /\ UNCHANGED << dpc, disk, pubs >>
               ELSE IF ~folder_exists
               THEN /\ cpc' = [cpc EXCEPT ![u] = "oserror"]
                    /\ UNCHANGED << dpc, disk, pubs >>
               ELSE /\ disk' = OpenWb(disk, file_name(TextContent(u), "txt"))
                    /\ cpc' = [cpc EXCEPT ![u] = "write"]
                    /\ UNCHANGED << dpc, pubs >>
    /\ UNCHANGED << config, fetches, client, mainpc, exc, semaphore, lheld, cheld, lpc,
                    cards, exported >>

\* text mode: write_content writes and returns the name; the record with
\* the single File is appended
process_card_text(u) ==
    /\ LoopRunning /\ cpc[u] = "write"
    /\ LET name == file_name(TextContent(u), "txt")
           metadata == _parse_metadata(adapter, site.detail[u], CardOf(u))
       IN /\ disk' = WriteBytes(disk, name, TextContent(u))
          /\ pubs' = Append(pubs, Publication(metadata, << File(u, name) >>))
    /\ cpc' = [cpc EXCEPT ![u] = "done"]
    /\ UNCHANGED << config, fetches, client, mainpc, exc, semaphore, lheld, cheld, lpc,
                    cards, dpc, exported >>

\* ------------------------------------------------------- download_file
\* client.get or raise_for_status raises httpx.HTTPError: File(url, None)
download_file_failed(u, d) ==
    /\ LoopRunning /\ dpc[u][d] = "get" /\ site.docs[d].status # 200
    /\ dpc' = [dpc EXCEPT ![u][d] = "fail"]
    /\ UNCHANGED << config, fetches, client, mainpc, exc, semaphore, lheld, cheld, lpc,
                    cards, cpc, disk, pubs, exported >>

\* 2xx: write_content opens the file named after the content; without the
\* folder open raises, which download_file does not catch
download_file_fetched(u, d) ==
    /\ LoopRunning /\ dpc[u][d] = "get" /\ site.docs[d].status = 200
    /\ IF folder_exists
       THEN /\ disk' = OpenWb(disk, file_name(site.docs[d].content, "pdf"))
            /\ dpc' = [dpc EXCEPT ![u][d] = "write"]
       ELSE /\ dpc' = [dpc EXCEPT ![u][d] = "oserror"]
            /\ UNCHANGED disk
    /\ UNCHANGED << config, fetches, client, mainpc, exc, semaphore, lheld, cheld, lpc,
                    cards, cpc, pubs, exported >>

\* write_content writes the bytes and returns the name
download_file_written(u, d) ==
    /\ LoopRunning /\ dpc[u][d] = "write"
    /\ disk' = WriteBytes(disk, file_name(site.docs[d].content, "pdf"),
                          site.docs[d].content)
    /\ dpc' = [dpc EXCEPT ![u][d] = "ok"]
    /\ UNCHANGED << config, fetches, client, mainpc, exc, semaphore, lheld, cheld, lpc,
                    cards, cpc, pubs, exported >>

DownloadedFileNamed(u, d) == File(d, file_name(site.docs[d].content, "pdf"))

DownloadedFileUrlNamed(u, d) ==
    File(d, IF dpc[u][d] = "ok" THEN d \o ".pdf" ELSE None)

\* the File a finished download_file task returned
DownloadedFile(u, d) ==
    File(d, IF dpc[u][d] = "ok" THEN file_name(site.docs[d].content, "pdf")
            ELSE None)

\* asyncio.gather of _download_files returns the Files in the iteration
\* order of urls and the record is appended; or it re-raises the error of
\* a download_file task, which leaves process_card
download_files_done(u) ==
    /\ LoopRunning /\ cpc[u] = "download"
    /\ IF \E d \in site.detail[u].links : dpc[u][d] = "oserror"
       THEN /\ cpc' = [cpc EXCEPT ![u] = "oserror"]
            /\ UNCHANGED pubs
       ELSE /\ \A d \in site.detail[u].links : dpc[u][d] \in {"ok", "fail"}
            /\ \E urls \in Orders(site.detail[u].links) :
                 LET files == [i \in DOMAIN urls |-> DownloadedFile(u, urls[i])]
                     metadata == _parse_metadata(adapter, site.detail[u], CardOf(u))
                 IN pubs' = Append(pubs, Publication(metadata, files))
            /\ cpc' = [cpc EXCEPT ![u] = "done"]
    /\ UNCHANGED << config, fetches, client, mainpc, exc, semaphore, lheld, cheld, lpc,
                    cards, dpc, disk, exported >>

\* ------------------------------------------- end of __call__, __aexit__
CardFinishedOrPending(u) == cpc[u] # "raised"

CardFinished(u) == cpc[u] \in {"none", "skipped", "nolabels", "notext", "done"}

\* second gather returns: __call__ returns and the with block is left
DetailPhaseReturns ==
    /\ mainpc = "phase2"
    /\ \A u \in Urls : CardFinished(u)
    /\ mainpc' = "aexit"
    /\ UNCHANGED << config, fetches, client, exc, semaphore, lheld, cheld, lpc, cards,
                    cpc, dpc, disk, pubs, exported >>

\* tqdm.gather re-raises the exception of a process_card task
DetailPhaseRaises ==
    /\ mainpc = "phase2"
    /\ \E u \in Urls :
         /\ cpc[u] \in {"raised", "oserror"}
         /\ exc' = IF cpc[u] = "raised" THEN "ValidationError"
                   ELSE "FileNotFoundError"
    /\ mainpc' = "aexit"
    /\ UNCHANGED << config, fetches, client, semaphore, lheld, cheld, lpc, cards, cpc,
                    dpc, disk, pubs, exported >>

Cancelled(pc) == IF pc \in {"idle", "get", "rawget", "wait", "download", "write"}
                 THEN "cancelled" ELSE pc

\* __aexit__: await self.client.aclose().  Without an exception run goes
\* on to export; with one the exception leaves run and asyncio.run cancels
\* the tasks still pending (a cancelled task leaves its with block, which
\* gives its permit back)
AExit ==
    /\ mainpc = "aexit"
    /\ client' = "closed"
    /\ IF exc = "none"
       THEN /\ mainpc' = "export"
            /\ UNCHANGED << semaphore, lheld, cheld, lpc, cpc, dpc >>
       ELSE /\ mainpc' = "failed"
            /\ lpc' = [p \in Pages |-> Cancelled(lpc[p])]
            /\ cpc' = [u \in Urls |-> Cancelled(cpc[u])]
            /\ dpc' = [u \in Urls |-> [d \in DocUrls |-> Cancelled(dpc[u][d])]]
            /\ semaphore' = semaphore + Cardinality(lheld) + Cardinality(cheld)
            /\ lheld' = {}
            /\ cheld' = {}
    /\ UNCHANGED << config, fetches, exc, cards, disk, pubs, exported >>

ExportLinesButLast(ps) == SubSeq(ps, 1, Len(ps) - 1)

\* df_pubs.to_json(orient="records", lines=True): one line per publication,
\* in the order of self.pubs, none for an empty frame
ExportLines(ps) == [i \in DOMAIN ps |-> ps[i]]

\* scraper.export() writes publications-<timestamp>.jsonl and run returns;
\* to_json raises OSError when the folder does not exist
Export ==
    /\ mainpc = "export"
    /\ IF folder_exists
       THEN /\ exported' = Append(exported, ExportLines(pubs))
            /\ mainpc' = "done"
            /\ UNCHANGED exc
       ELSE /\ exc' = "OSError"
            /\ mainpc' = "failed"
            /\ UNCHANGED exported
    /\ UNCHANGED << config, fetches, client, semaphore, lheld, cheld, lpc, cards,
                    cpc, dpc, disk, pubs >>

Next ==
    \/ AEnter
    \/ ProbeReturns
    \/ ProbeRaises
    \/ \E p \in Pages : sdgfund_collect_get(p)
    \/ \E p \in Pages : sdgfund_collect_ok(p)
    \/ \E p \in Pages : sdgfund_collect_raise(p)
    \/ \E p \in Pages : iom_collect_get(p)
    \/ \E p \in Pages : iom_collect_fetched(p)
    \/ \E p \in Pages : iom_collect_failed(p)
    \/ \E p \in Pages : iom_collect_add(p)
    \/ StartDetailPhase
    \/ ListingPhaseRaises
    \/ \E u \in Urls : get_soup_get(u)
    \/ \E u \in Urls : get_soup_fetched(u)
    \/ \E u \in Urls : get_soup_failed(u)
    \/ \E u \in Urls : process_card_parse(u)
    \/ \E u \in Urls : process_card_text(u)
    \/ \E u \in Urls, d \in DocUrls : download_file_failed(u, d)
    \/ \E u \in Urls, d \in DocUrls : download_file_fetched(u, d)
    \/ \E u \in Urls, d \in DocUrls : download_file_written(u, d)
    \/ \E u \in Urls : download_files_done(u)
    \/ DetailPhaseReturns
    \/ DetailPhaseRaises
    \/ AExit
    \/ Export

Spec == Init /\ [][Next]_vars

SpecAnyFolder == InitAnyFolder /\ [][Next]_vars

\* the event loop runs a task that is ready whenever there is one, and
\* every request, pause and write it awaits comes back
FairSpec == Init /\ [][Next]_vars /\ WF_vars(Next)

TypeOK ==
    /\ adapter \in Adapters
    /\ max_requests \in 1 .. MaxRequests
    /\ client \in {"unopened", "open", "closed"}
    /\ mainpc \in {"start", "probe", "phase1", "phase2", "aexit", "export",
                   "done", "failed"}
    /\ semaphore \in 0 .. max_requests
    /\ lheld \subseteq Pages
    /\ cheld \subseteq Urls
    /\ folder_exists \in BOOLEAN
    /\ exc \in {"none", "ConnectError", "HTTPStatusError", "ValidationError",
                "FileNotFoundError", "OSError"}
    /\ fetches \in [Urls -> Nat]

\* =============================================================== claims
Finished == mainpc \in {"done", "failed"}

InFlightListings == { p \in Pages : lpc[p] \in {"get", "rawget"} }

InFlightGetSoup ==
    Cardinality({ p \in Pages : lpc[p] = "get" }) +
    Cardinality({ u \in Urls : cpc[u] = "get" })

RecordsOf(u) == { i \in DOMAIN pubs : pubs[i].source = u }

\* the second gather has been reached with the collected cards
DetailPhaseRan == CardUrls # {} /\ \A u \in CardUrls : cpc[u] # "none"

FetchFails(u) == site.detail[u].status # 200

HasLabels(u) == site.detail[u].status = 200 /\ site.detail[u].goals # << >>

HasText(u) == ~IsNone(site.detail[u].text)

\* C1: no process_card task exists before every collect_cards task has
\* finished, by returning or by raising.
C1_PhaseBarrier ==
    (\E u \in Urls : cpc[u] # "none") =>
        \A p \in Pages : lpc[p] \in {"done", "raised"}

C1_Witness ==
    /\ \E u \in Urls : cpc[u] = "get"
    /\ \A p \in Pages : lpc[p] = "done"
    /\ Cardinality(CardUrls) = 2

\* C2: every step keeps the entries of the card set, adds only cards with a
\* url not yet in the set, and leaves one entry per url.
C2_DedupInvariant ==
    [][ /\ cards \subseteq cards'
        /\ \A c \in cards' \ cards : c.url \notin CardUrls
        /\ \A x, y \in cards' : x.url = y.url => x = y ]_vars

\* a page has been collected whose card for a known url, with other
\* metadata, was dropped
C2_Witness ==
    \E p \in Pages :
        /\ lpc[p] = "done" /\ site.listing[p].status = 200
        /\ \E c \in SeqToSet(ParseCards(adapter, site.listing[p].entries)) :
             c \notin cards /\ c.url \in CardUrls

\* C3 (as claimed): when the listing request of a page fails, no exception
\* leaves the run, the other pages contribute their cards and the detail
\* phase runs over them.
C3_ListingFailureIsolated ==
    (/\ Finished
     /\ exc \notin {"ConnectError", "ValidationError"}
     /\ \E p \in Pages : site.listing[p].status # 200)
    => /\ exc = "none"
       /\ \A q \in Pages : site.listing[q].status = 200 =>
            \A i \in DOMAIN site.listing[q].entries :
                site.listing[q].entries[i].url \in CardUrls
       /\ \A u \in CardUrls : cpc[u] \notin {"none", "cancelled"}

\* C4 (as claimed): with exactly one card whose detail fetch fails and all
\* others passing the label filter, the run ends with N-1 records, none for
\* the failed card, and no exception.
C4_PartialFailureOriginal ==
    (/\ Finished /\ DetailPhaseRan
     /\ Cardinality({ u \in CardUrls : FetchFails(u) }) = 1
     /\ \A u \in CardUrls : ~FetchFails(u) => HasLabels(u))
    => /\ exc = "none"
       /\ Len(pubs) = Cardinality(CardUrls) - 1
       /\ \A u \in CardUrls : FetchFails(u) => RecordsOf(u) = {}

\* C4 (amended): the same, for cards that in text mode also have a text.
C4_PartialFailureIsolation ==
    (/\ Finished /\ DetailPhaseRan
     /\ Cardinality({ u \in CardUrls : FetchFails(u) }) = 1
     /\ \A u \in CardUrls : ~FetchFails(u) =>
            HasLabels(u) /\ (DownloadMode(adapter) = "text" => HasText(u)))
    => /\ exc = "none"
       /\ Len(pubs) = Cardinality(CardUrls) - 1
       /\ \A u \in CardUrls : FetchFails(u) => RecordsOf(u) = {}

C4_Witness ==
    /\ mainpc = "done"
    /\ Cardinality(CardUrls) = 2
    /\ \E u \in CardUrls : cpc[u] = "skipped"
    /\ \E u \in CardUrls : cpc[u] = "done"
    /\ Len(pubs) = 1

\* C5 (as claimed): a page whose labels are None or the empty list never
\* gives a record.
C5_FilterInvariant ==
    \A u \in Urls : ~HasLabels(u) => RecordsOf(u) = {}

\* C6 (as claimed): a page without labels makes process_card return
\* normally; no exception leaves the run because of it.
C6_LabelFilterIsNormalSkip ==
    /\ \A u \in Urls :
         (site.detail[u].status = 200 /\ site.detail[u].goals = << >>) =>
             cpc[u] # "raised"
    /\ exc # "ValidationError"

\* the name download_file gives the document d: the hash name of its
\* content, None when the request fails
ExpectedName(d) == IF site.docs[d].status = 200
                   THEN file_name(site.docs[d].content, "pdf") ELSE None

\* files holds one File per url of U, each with its expected name
OneFilePerUrl(files, U) ==
    /\ ~IsNone(files)
    /\ Len(Val(files)) = Cardinality(U)
    /\ \A d \in U : \E i \in DOMAIN Val(files) :
         Val(files)[i] = File(d, ExpectedName(d))

C8_InFlightBound == InFlightGetSoup <= max_requests

\* every permit is in use and another task waits for one
C8_Witness ==
    /\ InFlightGetSoup = max_requests
    /\ \E u \in Urls : cpc[u] = "idle"

\* C9 (as claimed): a task that pauses after a successful fetch still holds
\* its permit, so as many permits as there are pausing tasks are missing.
C9_PauseBeforeRelease ==
    /\ \A p \in Pages : lpc[p] = "wait" => p \in lheld
    /\ \A u \in Urls : cpc[u] = "wait" => u \in cheld
    /\ semaphore + Cardinality({ p \in Pages : lpc[p] = "wait" })
                 + Cardinality({ u \in Urls : cpc[u] = "wait" }) <= max_requests

\* C10 (as claimed): at most max_requests listing requests are in flight,
\* whatever the adapter.
C10_ListingPhaseBound == Cardinality(InFlightListings) <= max_requests

\* the with block of run was left without an exception: both gathers of
\* __call__ returned
BothPhasesFinished ==
    \/ mainpc \in {"export", "done"}
    \/ mainpc = "aexit" /\ exc = "none"
    \/ mainpc = "failed" /\ exc = "OSError"

\* C11 (as claimed): no run ends with the client open, whatever the exit
\* path: completion, a failed probe, an exception of a crawl phase.
C11_ClientClosedAtExit == Finished => client # "open"

\* C12 (as claimed): when the probe of the base url does not answer 2xx,
\* no collect_cards and no process_card task is ever started and the run
\* ends with an error.
C12_ProbeFailureAborts ==
    site.base # 200 =>
        /\ \A p \in Pages : lpc[p] = "none"
        /\ \A u \in Urls : cpc[u] = "none"
        /\ Finished => exc # "none"

\* C13: a run whose two phases finished ends, with exit code 0, having
\* written exactly one export file, which holds one line per record of
\* pubs, none when pubs is empty; no run writes more than one file and no
\* file is written before the phases finished.
C13_ExportOnCompletion ==
    /\ Len(exported) <= 1
    /\ exported # << >> => mainpc = "done"
    /\ (Finished /\ BothPhasesFinished) =>
          /\ mainpc = "done" /\ exc = "none"
          /\ Len(exported) = 1
          /\ Len(exported[1]) = Len(pubs)
          /\ \A i \in DOMAIN pubs : exported[1][i] = pubs[i]

\* a completed run that exported its two records
C13_Witness ==
    /\ mainpc = "done"
    /\ Len(pubs) = 2
    /\ Len(exported) = 1 /\ Len(exported[1]) = 2

\* the card of u is one for which a record is due: fetched, labelled and,
\* in text mode, with a text
RecordDue(u) ==
    HasLabels(u) /\ (DownloadMode(adapter) = "text" => HasText(u))

\* C14 (as claimed): after a run without a fatal error pubs holds exactly
\* one record for every collected card that was fetched, has labels and,
\* in text mode, a text, with the card url as source and the parsed labels,
\* and no record for any other card.
C14_ExactResultSet ==
    (mainpc = "done" /\ exc = "none") =>
        /\ \A u \in CardUrls :
             Cardinality(RecordsOf(u)) = IF RecordDue(u) THEN 1 ELSE 0
        /\ \A i \in DOMAIN pubs :
             /\ pubs[i].source \in CardUrls
             /\ pubs[i].labels = sorted(site.detail[pubs[i].source].goals)

\* C15: a detail page is requested at most once, and only for a collected
\* card; pubs never holds two records of one source nor more records than
\* there are collected cards.
C15_AtMostOnce ==
    /\ \A u \in Urls :
         /\ fetches[u] <= 1
         /\ fetches[u] = 1 => u \in CardUrls
         /\ Cardinality(RecordsOf(u)) <= 1
    /\ Len(pubs) <= Cardinality(cards)

\* a completed run with two cards, each requested once: the request of one
\* failed and was not repeated, the other gave its record
C15_Witness ==
    /\ mainpc = "done"
    /\ \E u, v \in CardUrls :
         /\ u # v
         /\ fetches[u] = 1 /\ cpc[u] = FetchFailedPc /\ RecordsOf(u) = {}
         /\ fetches[v] = 1 /\ cpc[v] = "done" /\ Cardinality(RecordsOf(v)) = 1

\* the Files of the records of pubs that carry a name
NamedFiles ==
    UNION { { f \in SeqToSet(Val(pubs[i].files)) : f.name # None } :
            i \in { k \in DOMAIN pubs : ~IsNone(pubs[k].files) } }

\* the bytes that were written for a File: the document behind its url,
\* or in text mode the encoded text of the page behind it
ContentOf(f) == IF f.url \in DocUrls THEN site.docs[f.url].content
                ELSE TextContent(f.url)

ExtensionOf(f) == IF f.url \in DocUrls THEN "pdf" ELSE "txt"

\* C16: the name of every stored File is the hash of its content, a dot
\* and the extension; Files of equal content have equal names, whatever
\* their urls and the order of the downloads.
C16_ContentAddressing ==
    \A f, g \in NamedFiles :
        /\ f.name = file_name(ContentOf(f), ExtensionOf(f))
        /\ (ContentOf(f) = ContentOf(g) /\ ExtensionOf(f) = ExtensionOf(g))
               => f.name = g.name

\* the same bytes were downloaded from two urls: two Files with equal
\* name and different url
C16_Witness ==
    \E f, g \in NamedFiles :
        /\ f.url \in DocUrls /\ g.url \in DocUrls
        /\ f.url # g.url
        /\ site.docs[f.url].content = site.docs[g.url].content
        /\ f.name = g.name

\* C17 (as claimed): the only errors that leave the run are connectivity
\* errors of the probe and configuration errors; no collect_cards,
\* process_card or download_file task ends with an exception, whether from
\* a request, a parse step, the validation of a record or a file write.
C17_PropagationPolicy ==
    /\ exc \in {"none", "ConnectError", "OSError"}
    /\ \A p \in Pages : lpc[p] # "raised"
    /\ \A u \in Urls :
         /\ cpc[u] \notin {"raised", "oserror"}
         /\ \A d \in DocUrls : dpc[u][d] # "oserror"

\* C18 (as claimed): when the output folder does not exist the run aborts
\* before any network activity: the client is never opened, the probe is
\* never sent and no listing, detail or download task ever exists.
C18_MissingFolderAbortsFirst ==
    ~folder_exists =>
        /\ client = "unopened"
        /\ mainpc \in {"start", "failed"}
        /\ \A p \in Pages : lpc[p] = "none"
        /\ \A u \in Urls :
             /\ cpc[u] = "none"
             /\ \A d \in DocUrls : dpc[u][d] = "none"

\* the bytes of the file that text mode is to write for a text: its UTF-8
\* encoding, two bytes for the second character of PageText
Utf8Of(t) == IF t = PageText THEN << 83, 195, 169 >> ELSE << >>

\* C19: in text mode a card that passes the label filter and whose page
\* gives no text gets no record and writes no file; one whose page gives a
\* text gets exactly one record whose files is the single File of the card
\* url and of the name of the .txt file that holds the UTF-8 text.
C19_TextMode ==
    DownloadMode(adapter) = "text" =>
        /\ \A u \in Urls :
             /\ (HasLabels(u) /\ ~HasText(u)) =>
                    RecordsOf(u) = {} /\ cpc[u] \notin {"write", "done"}
             /\ RecordsOf(u) # {} => cpc[u] = "done"
             /\ (mainpc = "done" /\ u \in CardUrls /\ RecordDue(u)) =>
                    cpc[u] = "done"
             /\ cpc[u] = "done" =>
                    LET content == Utf8Of(Val(site.detail[u].text))
                        name == file_name(content, "txt")
                    IN /\ HasLabels(u) /\ HasText(u)
                       /\ name \in DOMAIN disk
                       /\ mainpc = "done" => disk[name] = content
                       /\ \E i \in DOMAIN pubs :
                            /\ RecordsOf(u) = {i}
                            /\ pubs[i].files = Some(<< File(u, name) >>)
        /\ DOMAIN disk \subseteq
               { file_name(Utf8Of(Val(site.detail[u].text)), "txt") :
                   u \in { v \in CardUrls : RecordDue(v) } }

\* a completed text-mode run with two labelled cards: the page of one has
\* a text with a non-ASCII character, and its record and file exist; the
\* page of the other has none, and it left no record
C19_Witness ==
    /\ DownloadMode(adapter) = "text" /\ mainpc = "done"
    /\ \E u, v \in CardUrls :
         /\ HasLabels(u) /\ site.detail[u].text = Some(PageText)
         /\ cpc[u] = "done" /\ Cardinality(RecordsOf(u)) = 1
         /\ HasLabels(v) /\ ~HasText(v)
         /\ cpc[v] = "notext" /\ RecordsOf(v) = {}
    /\ DOMAIN disk = { file_name(Utf8Of(PageText), "txt") }

\* C20: the files of every record is None or a non-empty list, and the
\* record of a card whose page gives no document url has files None.
C20_FilesNoneOrNonEmpty ==
    \A i \in DOMAIN pubs :
        /\ IsNone(pubs[i].files) \/ Len(Val(pubs[i].files)) > 0
        /\ (DownloadMode(adapter) = "files"
              /\ site.detail[pubs[i].source].links = {})
               => IsNone(pubs[i].files)

\* a record was appended for a card whose page links no document, and one
\* for a card whose page links some
C20_Witness ==
    \E i, j \in DOMAIN pubs :
        /\ site.detail[pubs[i].source].links = {}
        /\ IsNone(pubs[i].files)
        /\ site.detail[pubs[j].source].links # {}
        /\ ~IsNone(pubs[j].files)

\* the card set after the listing tasks added their cards in the order o
\* of pages
RECURSIVE CardsAfter(_, _)
CardsAfter(S, o) ==
    IF o = << >> THEN S
    ELSE CardsAfter(SetUpdate(S, ParseCards(adapter,
                                            site.listing[Head(o)].entries)),
                    Tail(o))

\* a record without its files
MetadataOf(r) == [source |-> r.source, title |-> r.title, type |-> r.type,
                  year |-> r.year, labels |-> r.labels]

\* C21 (as claimed): the records of a completed run do not depend on the
\* order in which the listing tasks finished: each record is the one that
\* every order of the pages gives for its url (the order of the records
\* and of the files inside a record left aside).
C21_ResultSetDeterminism ==
    mainpc = "done" =>
        \A o \in Orders(Pages) :
            /\ CardUrls = { c.url : c \in CardsAfter({}, o) }
            /\ \A i \in DOMAIN pubs :
                 LET c == CHOOSE x \in CardsAfter({}, o) :
                              x.url = pubs[i].source
                     m == _parse_metadata(adapter, site.detail[c.url], c)
                 IN MetadataOf(pubs[i]) = MetadataOf(Publication(m, << >>))

\* C22: the permits held by the get_soup calls that are inside their with
\* block and the permits available always add up to max_requests; a call
\* holds a permit exactly while its request is in flight, whether it then
\* succeeds or fails; a task that waits for a permit waits for a holder;
\* when the run has ended every permit is available.
C22_PermitConservation ==
    /\ semaphore + Cardinality(lheld) + Cardinality(cheld) = max_requests
    /\ lheld = { p \in Pages : lpc[p] = "get" }
    /\ cheld = { u \in Urls : cpc[u] = "get" }
    /\ (locked /\ \E u \in Urls : cpc[u] = "idle") => lheld \cup cheld # {}
    /\ Finished => semaphore = max_requests

\* a completed run in which a permit came back from a request that
\* failed and from one that succeeded
C22_Witness ==
    /\ mainpc = "done" /\ semaphore = max_requests
    /\ \E u, v \in CardUrls :
         /\ fetches[u] = 1 /\ FetchFails(u)
         /\ fetches[v] = 1 /\ ~FetchFails(v)

\* the outcomes of process_card that the run treats as final: skipped
\* after a failed fetch, skipped for missing labels or text, recorded
SettledPc == {FetchFailedPc, "nolabels", "notext", "done"}

EveryCardSettled ==
    \A u \in CardUrls :
        /\ cpc[u] \in SettledPc
        /\ cpc[u] = "done" <=> RecordsOf(u) # {}
        /\ Cardinality(RecordsOf(u)) <= 1

\* C23 (as claimed): under fair scheduling every run eventually ends, and
\* when it has ended every collected card is skipped after a failed fetch,
\* skipped by the label or text filter, or recorded in pubs, and only one
\* of these.
C23_Termination == <>(Finished /\ EveryCardSettled)

\* the second gather has created the process_card tasks
DetailPhaseStarted == mainpc = "phase2" \/ \E u \in Urls : cpc[u] # "none"

\* C24: from the start of the detail phase on, no step changes the card
\* set, the process_card tasks are those of the cards of that set, and
\* pubs changes only by the append of one record.
C24_DetailPhaseFrame ==
    [][ DetailPhaseStarted =>
          /\ cards' = cards
          /\ { u \in Urls : cpc[u] # "none" } = CardUrls
          /\ { u \in Urls : cpc'[u] # "none" } = CardUrls
          /\ \/ pubs' = pubs
             \/ /\ Len(pubs') = Len(pubs) + 1
                /\ SubSeq(pubs', 1, Len(pubs)) = pubs ]_vars

\* the detail phase is under way over two cards: one record has been
\* appended and another card is still being fetched
C24_Witness ==
    /\ mainpc = "phase2"
    /\ Cardinality(cards) = 2
    /\ Len(pubs) = 1
    /\ \E u \in CardUrls : cpc[u] \in {"idle", "get", "wait"}

\* the file named n holds bytes whose hash is the stem of n
StoredFileIntact(n) ==
    \E extension \in {"pdf", "txt"} : n = file_name(disk[n], extension)

\* C25 (as claimed): when the run has ended every file of the output
\* folder holds the bytes its name is the hash of, and every named File of
\* pubs is such a file.
C25_StoredFileIntegrity ==
    Finished =>
        /\ \A n \in DOMAIN disk : StoredFileIntact(n)
        /\ \A f \in NamedFiles : f.name \in DOMAIN disk

\* run calls scraper.export()
ExportStep == mainpc = "export" /\ mainpc' # "export"

\* C26: export is called at most once, only when both phases have
\* finished without an exception and the client is closed, and it leaves
\* pubs unchanged; nothing else writes an export file; once an exception
\* has left the crawl, export is never called and no export file exists.
C26_ExportOrdering ==
    [][ /\ ExportStep =>
             /\ exported = << >> /\ exc = "none" /\ client = "closed"
             /\ \A p \in Pages : lpc[p] = "done"
             /\ \A u \in Urls :
                  cpc[u] \in (IF u \in CardUrls THEN SettledPc ELSE {"none"})
             /\ pubs' = pubs
        /\ exported' # exported => ExportStep
        /\ exc' # "none" => (exported' = << >> /\ mainpc' # "export") ]_vars

\* a run ended by an exception of the detail phase after a record had
\* been appended: the client is closed and no export file exists
C26_Witness ==
    /\ mainpc = "failed" /\ exc = "ValidationError"
    /\ client = "closed"
    /\ Len(pubs) >= 1
    /\ exported = << >>

====
